---- MODULE Spec2Model ----
(***************************************************************************)
(* Model of src/maintenance.py: the maintenance-event watch loop           *)
(* (wait_for_maintenance), the persisted last-event file                   *)
(* (set_last_maintenance_event / get_last_maintenance_event), the action   *)
(* runner (run_shell_command) and the callback (maintenance_callback).     *)
(*                                                                         *)
(* The script is Python 2 code (byte strings concatenated with subprocess  *)
(* output, r.text.encode('utf-8') compared with str literals), so event    *)
(* values are byte strings; they are modelled as sequences of characters.  *)
(***************************************************************************)
EXTENDS Integers, Sequences, FiniteSets, TLC

\* ------------------------------------------------------------------ bounds
\* longest run of whitespace put in front of / behind a response body
MaxPad == 1
\* consecutive transient failures are counted up to this number
MaxRetries == 2

\* ------------------------------------------------------------- strings
Whitespace == {" ", "\n"}

NONE == <<"N", "O", "N", "E">>
MIGRATE == <<"M", "I", "G", "R", "A", "T", "E">>

\* value of a Python name that has not been assigned yet
Unset == <<"<unset>">>

RECURSIVE lstrip(_)
lstrip(s) ==
    IF s # <<>> /\ Head(s) \in Whitespace THEN lstrip(Tail(s)) ELSE s

RECURSIVE rstrip(_)
rstrip(s) ==
    IF s # <<>> /\ s[Len(s)] \in Whitespace
    THEN rstrip(SubSeq(s, 1, Len(s) - 1))
    ELSE s

\* str.strip() without arguments
strip(s) == rstrip(lstrip(s))

\* the runs of one whitespace character, up to n long
PadsUpTo(n) == {[i \in 1..k |-> c] : c \in Whitespace, k \in 0..n}

\* NONE, one maintenance event, and the empty body
Words == {NONE, MIGRATE, <<>>}

\* the response bodies the metadata server is let to send
Bodies == {l \o w \o r : l \in PadsUpTo(MaxPad), w \in Words, r \in PadsUpTo(MaxPad)}

\* what another process may leave in the status file
ExternalContents == {MIGRATE, MIGRATE \o <<"\n">>}

\* ------------------------------------------------------------ the server
Etags == {"e1", "e2"}
Statuses == {200, 304, 404, 503}
Exceptions == {"TooManyRedirects", "ConnectionError"}

\* ----------------------------------------------------------- the commands
ASINFO == "/usr/bin/asinfo"
ASADM == "/usr/bin/asadm"
OptionSets == {<<>>, <<"-u", "admin">>}
CommandOutcomes == {"ok", "stderr", "nonzero", "oserror"}

VARIABLES
    pc,                         \* position of the process
    is_persistent_last_event,   \* the -p / -n flag
    options,                    \* args.options.split()
    file,                       \* AS_TMP_LAST_STATUS_FILE
    last_etag,
    last_maintenance_event,
    maintenance_event,
    raised,                     \* the exception that ended the process
    status_code,                \* r.status_code of the latest response, 0: none
    sent,                       \* last_etag parameter of the latest request
    \* history variables
    prevSent,                   \* last_etag parameter of the request before it
    lastOutcome,                \* how the previous poll of this run ended
    accepted,                   \* etag of the latest accepted response of this run
    observed,                   \* event of the latest accepted response of this run,
                                \* before the first one the event set at start-up
    prevObserved,               \* event observed before that one
    nAccepted,                  \* accepted responses of this run, capped at 2
    retries,                    \* transient failures since the latest accepted
                                \* response of this run, capped at MaxRetries
    invoked,                    \* callback invocations for the latest response
    cbArg,                      \* argument of the latest callback invocation
    ran,                        \* argument vectors of the commands run by the
                                \* latest callback, in order
    drained,                    \* the last drain/undrain command run was drain
    tampered,                   \* file changed from outside or unreadable in this run
    read,                       \* how the status file was read since the latest
                                \* request (or at start-up): "none" is not at all
    wrote                       \* the write for the latest transition succeeded
                                \* and no other process wrote the file since

vars == <<pc, is_persistent_last_event, options, file, last_etag,
          last_maintenance_event, maintenance_event, raised, status_code, sent,
          prevSent, lastOutcome, accepted, observed, prevObserved, nAccepted,
          retries, invoked, cbArg, ran, drained, tampered, read, wrote>>

config == <<is_persistent_last_event, options>>

\* variables that only the process itself holds (lost when it is killed)
volatile == <<last_etag, last_maintenance_event, maintenance_event, raised,
             status_code>>
history == <<observed, prevObserved, nAccepted, invoked, cbArg, ran>>

\* ------------------------------------------------------ persisted status
NoFile == [exists |-> FALSE, data |-> <<>>]
FileWith(data) == [exists |-> TRUE, data |-> data]

\* get_last_maintenance_event() with the os.path.isfile test inverted
get_last_maintenance_event_inverted(f, readOk) == NONE

\* get_last_maintenance_event(): readOk = FALSE is the IOError branch
get_last_maintenance_event(f, readOk) ==
    IF ~f.exists THEN NONE
    ELSE IF readOk THEN f.data
    ELSE NONE

\* which branch of get_last_maintenance_event() returned
ReadOutcome(f, readOk) ==
    IF ~f.exists THEN "absent"
    ELSE IF readOk THEN "ok"
    ELSE "failed"

\* the read in get_last_maintenance_event() met the IOError branch
ReadFailed(f, readOk) == f.exists /\ ~readOk

\* start-up that reads the status file whatever the flag says
InitialEvent_always_reads(persist, f, readOk) ==
    get_last_maintenance_event(f, readOk)

\* lines 137-140: last_maintenance_event at start-up
InitialEvent(persist, f, readOk) ==
    IF persist THEN get_last_maintenance_event(f, readOk) ELSE NONE

\* a comparison with the value held in memory whatever the flag says
CompareTo_memory(persist, f, readOk, inMemory) == inMemory

\* lines 193-194: the value a new event is compared with
CompareTo(persist, f, readOk, inMemory) ==
    IF persist THEN get_last_maintenance_event(f, readOk) ELSE inMemory

\* a transition that is persisted whatever the flag says
AfterChange_always_persists(persist) == "persist_open"

\* lines 199-202: what follows the assignment of a changed event
AfterChange(persist) == IF persist THEN "persist_open" ELSE "drain"

\* ------------------------------------------------------------- the poll
\* the generic except clause placed first: it takes every RequestException
ExceptHandler_generic_first(exc) == "retry"

\* which except clause of the try around requests.get takes the exception
ExceptHandler(exc) ==
    IF exc = "TooManyRedirects" THEN "raise" ELSE "retry"

\* requests.Response.raise_for_status(): raises for 4xx and 5xx only
raise_for_status(status) == 400 <= status /\ status < 600

\* a normalisation that takes the body NONE for an empty event
normalize_none_as_empty(text) ==
    IF text = NONE THEN <<>> ELSE strip(text)

\* lines 185-191: the event named by a response body
normalize(text) ==
    IF text = NONE THEN NONE ELSE strip(text)

\* ---------------------------------------------------------- the callback
DrainCommand(event, opts) ==
    IF event # NONE
    THEN <<ASINFO, "-v", "quiesce:">> \o opts
    ELSE <<ASINFO, "-v", "quiesce-undo:">> \o opts

ReclusterCommand(opts) == <<ASADM, "-e", "asinfo -v \"recluster:\"">> \o opts

\* ------------------------------------------------------------------ Init
Init ==
    /\ pc = "start"
    /\ is_persistent_last_event \in BOOLEAN
    /\ options \in OptionSets
    /\ file = NoFile
    /\ last_etag = "<unset>"
    /\ last_maintenance_event = Unset
    /\ maintenance_event = Unset
    /\ raised = "none"
    /\ status_code = 0
    /\ sent = "<unset>"
    /\ prevSent = "<unset>"
    /\ lastOutcome = "none"
    /\ accepted = "0"
    /\ observed = Unset
    /\ prevObserved = Unset
    /\ nAccepted = 0
    /\ retries = 0
    /\ invoked = 0
    /\ cbArg = Unset
    /\ ran = <<>>
    /\ drained = FALSE
    /\ tampered = FALSE
    /\ read = "none"
    /\ wrote = FALSE

\* --------------------------------------------------------------- actions
\* In Start and Accept readOk = FALSE is the IOError branch of the read; it
\* can be taken only where the file is opened (persistence on, file there).

\* one more transient failure, counted up to MaxRetries
Counted(n) == IF n < MaxRetries THEN n + 1 ELSE MaxRetries

\* lines 136-143: the process starts
Start(readOk) ==
    /\ pc = "start"
    /\ readOk \/ (is_persistent_last_event /\ file.exists)
    /\ last_maintenance_event' =
          InitialEvent(is_persistent_last_event, file, readOk)
    /\ last_etag' = "0"
    /\ pc' = "poll"
    /\ observed' = last_maintenance_event'
    /\ tampered' = (is_persistent_last_event /\ ReadFailed(file, readOk))
    /\ read' = IF is_persistent_last_event
               THEN ReadOutcome(file, readOk) ELSE "none"
    /\ UNCHANGED <<wrote, retries, config, file, maintenance_event, raised, status_code, sent,
                   prevSent, lastOutcome, accepted, prevObserved, nAccepted, invoked,
                   cbArg, ran, drained>>

\* lines 145-151: requests.get is called with the current last_etag
Request ==
    /\ pc = "poll"
    /\ pc' = "waiting"
    /\ sent' = last_etag
    /\ prevSent' = sent
    /\ status_code' = 0
    /\ invoked' = 0
    /\ cbArg' = Unset
    /\ ran' = <<>>
    /\ read' = "none"
    /\ wrote' = FALSE
    /\ UNCHANGED <<retries, config, file, last_etag, last_maintenance_event,
                   maintenance_event, raised, lastOutcome, accepted, observed,
                   prevObserved, nAccepted, drained, tampered>>

\* RequestFails with a cap of one retry: the second transient failure in a
\* row is raised
RequestFails_capped(exc) ==
    /\ pc = "waiting"
    /\ lastOutcome' = exc
    /\ IF ExceptHandler(exc) = "raise" \/ retries >= 1
       THEN pc' = "terminated" /\ raised' = exc /\ retries' = retries
       ELSE pc' = "sleep" /\ raised' = raised /\ retries' = Counted(retries)
    /\ UNCHANGED <<read, wrote, config, file, last_etag, last_maintenance_event,
                   maintenance_event, status_code, sent, prevSent, accepted, history,
                   drained, tampered>>

\* lines 154-166: requests.get raises
RequestFails(exc) ==
    /\ pc = "waiting"
    /\ lastOutcome' = exc
    /\ IF ExceptHandler(exc) = "raise"
       THEN pc' = "terminated" /\ raised' = exc /\ retries' = retries
       ELSE pc' = "sleep" /\ raised' = raised /\ retries' = Counted(retries)
    /\ UNCHANGED <<read, wrote, config, file, last_etag, last_maintenance_event,
                   maintenance_event, status_code, sent, prevSent, accepted, history,
                   drained, tampered>>

\* a 503 taken for the end of the maintenance: the event is reset to NONE
ServiceUnavailable_clears_event(status) ==
    /\ pc = "waiting"
    /\ status = 503
    /\ pc' = "sleep"
    /\ status_code' = status
    /\ lastOutcome' = "503"
    /\ retries' = Counted(retries)
    /\ maintenance_event' = NONE
    /\ last_maintenance_event' = NONE
    /\ UNCHANGED <<read, wrote, config, file, last_etag, raised, sent,
                   prevSent, accepted, history, drained, tampered>>

\* lines 170-172: the response is a 503
ServiceUnavailable(status) ==
    /\ pc = "waiting"
    /\ status = 503
    /\ pc' = "sleep"
    /\ status_code' = status
    /\ lastOutcome' = "503"
    /\ retries' = Counted(retries)
    /\ UNCHANGED <<read, wrote, config, file, last_etag, last_maintenance_event,
                   maintenance_event, raised, sent, prevSent, accepted,
                   history, drained, tampered>>

\* a retry that starts over from the initial etag
Sleep_resets_etag ==
    /\ pc = "sleep"
    /\ pc' = "poll"
    /\ last_etag' = "0"
    /\ UNCHANGED <<read, wrote, retries, config, file, last_maintenance_event, maintenance_event,
                   raised, status_code, sent, prevSent, lastOutcome, accepted,
                   history, drained, tampered>>

\* lines 165-166, 171-172: time.sleep(1); continue
Sleep ==
    /\ pc = "sleep"
    /\ pc' = "poll"
    /\ UNCHANGED <<read, wrote, retries, config, file, volatile, sent, prevSent, lastOutcome,
                   accepted, history, drained, tampered>>

\* lines 176-180: raise_for_status() raises and the error is re-raised
HttpError(status) ==
    /\ pc = "waiting"
    /\ status # 503
    /\ raise_for_status(status)
    /\ pc' = "terminated"
    /\ raised' = "HTTPError"
    /\ status_code' = status
    /\ lastOutcome' = "HTTPError"
    /\ UNCHANGED <<read, wrote, retries, config, file, last_etag, last_maintenance_event,
                   maintenance_event, sent, prevSent, accepted, history,
                   drained, tampered>>

\* line 182: r.headers['etag'] of a response without that header
MissingEtag(status) ==
    /\ pc = "waiting"
    /\ status # 503
    /\ ~raise_for_status(status)
    /\ pc' = "terminated"
    /\ raised' = "KeyError"
    /\ status_code' = status
    /\ lastOutcome' = "KeyError"
    /\ UNCHANGED <<read, wrote, retries, config, file, last_etag, last_maintenance_event,
                   maintenance_event, sent, prevSent, accepted, history,
                   drained, tampered>>

\* Accept where last_etag is stored only when the event changed
Accept_etag_on_change(status, text, etag, readOk) ==
    /\ pc = "waiting"
    /\ status # 503
    /\ ~raise_for_status(status)
    /\ readOk \/ (is_persistent_last_event /\ file.exists)
    /\ status_code' = status
    /\ maintenance_event' = normalize(text)
    /\ LET reread == CompareTo(is_persistent_last_event, file, readOk,
                               last_maintenance_event)
           changed == maintenance_event' # reread
       IN /\ last_maintenance_event' =
                IF changed THEN maintenance_event' ELSE reread
          /\ last_etag' = IF changed THEN etag ELSE last_etag
          /\ pc' = IF ~changed THEN "poll"
                   ELSE AfterChange(is_persistent_last_event)
          /\ invoked' = IF pc' = "drain" THEN 1 ELSE 0
          /\ cbArg' = IF pc' = "drain" THEN maintenance_event' ELSE cbArg
    /\ tampered' = (tampered \/
                    (is_persistent_last_event /\ ReadFailed(file, readOk)))
    /\ lastOutcome' = "accepted"
    /\ accepted' = etag
    /\ prevObserved' = observed
    /\ observed' = maintenance_event'
    /\ nAccepted' = IF nAccepted < 2 THEN nAccepted + 1 ELSE 2
    /\ retries' = 0
    /\ ran' = <<>>
    /\ read' = IF is_persistent_last_event
               THEN ReadOutcome(file, readOk) ELSE "none"
    /\ wrote' = FALSE
    /\ UNCHANGED <<config, file, raised, sent, prevSent, drained>>

\* lines 182-198 and 202: the response is accepted, its event compared
Accept(status, text, etag, readOk) ==
    /\ pc = "waiting"
    /\ status # 503
    /\ ~raise_for_status(status)
    /\ readOk \/ (is_persistent_last_event /\ file.exists)
    /\ status_code' = status
    /\ last_etag' = etag
    /\ maintenance_event' = normalize(text)
    /\ LET reread == CompareTo(is_persistent_last_event, file, readOk,
                               last_maintenance_event)
           changed == maintenance_event' # reread
       IN /\ last_maintenance_event' =
                IF changed THEN maintenance_event' ELSE reread
          /\ pc' = IF ~changed THEN "poll"
                   ELSE AfterChange(is_persistent_last_event)
          /\ invoked' = IF pc' = "drain" THEN 1 ELSE 0
          /\ cbArg' = IF pc' = "drain" THEN maintenance_event' ELSE cbArg
    /\ tampered' = (tampered \/
                    (is_persistent_last_event /\ ReadFailed(file, readOk)))
    /\ lastOutcome' = "accepted"
    /\ accepted' = etag
    /\ prevObserved' = observed
    /\ observed' = maintenance_event'
    /\ nAccepted' = IF nAccepted < 2 THEN nAccepted + 1 ELSE 2
    /\ retries' = 0
    /\ ran' = <<>>
    /\ read' = IF is_persistent_last_event
               THEN ReadOutcome(file, readOk) ELSE "none"
    /\ wrote' = FALSE
    /\ UNCHANGED <<config, file, raised, sent, prevSent, drained>>

\* set_last_maintenance_event() without its except clause: the IOError of
\* open() leaves the loop
PersistOpen_uncaught(ok) ==
    /\ pc = "persist_open"
    /\ IF ok
       THEN /\ file' = FileWith(<<>>)
            /\ pc' = "persist_write"
            /\ raised' = raised
       ELSE /\ file' = file
            /\ pc' = "terminated"
            /\ raised' = "IOError"
    /\ UNCHANGED <<read, wrote, retries, config, last_etag,
                   last_maintenance_event, maintenance_event, status_code,
                   sent, prevSent, lastOutcome, accepted, history, drained,
                   tampered>>

\* lines 97-98 and 100-101: open(AS_TMP_LAST_STATUS_FILE, 'w')
PersistOpen(ok) ==
    /\ pc = "persist_open"
    /\ IF ok
       THEN /\ file' = FileWith(<<>>)
            /\ pc' = "persist_write"
            /\ UNCHANGED <<invoked, cbArg>>
       ELSE /\ file' = file
            /\ pc' = "drain"
            /\ invoked' = invoked + 1
            /\ cbArg' = maintenance_event
    /\ UNCHANGED <<read, wrote, retries, config, volatile, sent, prevSent, lastOutcome, accepted,
                   observed, prevObserved, nAccepted, ran, drained,
                   tampered>>

\* a write that is still buffered when the callback is invoked: the file
\* has been truncated by open() and does not hold the event yet
PersistWrite_buffered(ok) ==
    /\ pc = "persist_write"
    /\ file' = file
    /\ pc' = "drain"
    /\ invoked' = invoked + 1
    /\ cbArg' = maintenance_event
    /\ wrote' = ok
    /\ UNCHANGED <<read, retries, config, volatile, sent, prevSent,
                   lastOutcome, accepted, observed, prevObserved, nAccepted,
                   ran, drained, tampered>>

\* lines 99-101 and 202: tmpfile.write(str(event)), the file is closed
PersistWrite(ok) ==
    /\ pc = "persist_write"
    /\ file' = IF ok THEN FileWith(last_maintenance_event) ELSE file
    /\ pc' = "drain"
    /\ invoked' = invoked + 1
    /\ cbArg' = maintenance_event
    /\ wrote' = ok
    /\ UNCHANGED <<read, retries, config, volatile, sent, prevSent, lastOutcome, accepted,
                   observed, prevObserved, nAccepted, ran, drained,
                   tampered>>

\* a callback handed to another thread: the loop goes on at once and the
\* commands have not run when it polls again
RunDrain_detached(outcome) ==
    /\ pc = "drain"
    /\ pc' = "poll"
    /\ UNCHANGED <<read, wrote, retries, config, file, volatile, sent,
                   prevSent, lastOutcome, accepted, history, drained,
                   tampered>>

\* lines 206-219 with run_shell_command: the quiesce / quiesce-undo command
RunDrain(outcome) ==
    /\ pc = "drain"
    /\ IF outcome = "oserror"
       THEN /\ pc' = "terminated"
            /\ raised' = "OSError"
            /\ UNCHANGED <<ran, drained>>
       ELSE /\ pc' = "recluster"
            /\ raised' = raised
            /\ ran' = Append(ran, DrainCommand(cbArg, options))
            /\ drained' = (cbArg # NONE)
    /\ UNCHANGED <<read, wrote, retries, config, file, last_etag, last_maintenance_event,
                   maintenance_event, status_code, sent, prevSent, lastOutcome,
                   accepted,
                   observed, prevObserved, nAccepted, invoked, cbArg,
                   tampered>>

\* lines 221-224 with run_shell_command: the recluster command
RunRecluster(outcome) ==
    /\ pc = "recluster"
    /\ IF outcome = "oserror"
       THEN /\ pc' = "terminated"
            /\ raised' = "OSError"
            /\ ran' = ran
       ELSE /\ pc' = "poll"
            /\ raised' = raised
            /\ ran' = Append(ran, ReclusterCommand(options))
    /\ UNCHANGED <<read, wrote, retries, config, file, last_etag, last_maintenance_event,
                   maintenance_event, status_code, sent, prevSent, lastOutcome,
                   accepted,
                   observed, prevObserved, nAccepted, invoked, cbArg,
                   drained, tampered>>

\* the process is killed and started again by its supervisor
Kill ==
    /\ pc \notin {"start", "terminated"}
    /\ pc' = "start"
    /\ last_etag' = "<unset>"
    /\ last_maintenance_event' = Unset
    /\ maintenance_event' = Unset
    /\ status_code' = 0
    /\ sent' = "<unset>"
    /\ prevSent' = "<unset>"
    /\ lastOutcome' = "none"
    /\ accepted' = "0"
    /\ observed' = Unset
    /\ prevObserved' = Unset
    /\ nAccepted' = 0
    /\ retries' = 0
    /\ invoked' = 0
    /\ cbArg' = Unset
    /\ ran' = <<>>
    /\ tampered' = FALSE
    /\ read' = "none"
    /\ wrote' = FALSE
    /\ UNCHANGED <<config, file, raised, drained>>

\* another process writes or removes the status file
ExternalWrite(f) ==
    /\ pc # "terminated"
    /\ f # file
    /\ file' = f
    /\ tampered' = (pc # "start")
    /\ wrote' = FALSE
    /\ UNCHANGED <<read, retries, pc, config, volatile, sent, prevSent, lastOutcome,
                   accepted, history, drained>>

ExternalFiles == {NoFile} \cup {FileWith(d) : d \in ExternalContents}

Next ==
    \/ \E readOk \in BOOLEAN : Start(readOk)
    \/ Request
    \/ \E exc \in Exceptions : RequestFails(exc)
    \/ \E status \in Statuses : ServiceUnavailable(status)
    \/ Sleep
    \/ \E status \in Statuses : HttpError(status)
    \/ \E status \in Statuses : MissingEtag(status)
    \/ \E status \in Statuses, text \in Bodies, etag \in Etags, readOk \in BOOLEAN :
          Accept(status, text, etag, readOk)
    \/ \E ok \in BOOLEAN : PersistOpen(ok)
    \/ \E ok \in BOOLEAN : PersistWrite(ok)
    \/ \E outcome \in CommandOutcomes : RunDrain(outcome)
    \/ \E outcome \in CommandOutcomes : RunRecluster(outcome)
    \/ Kill
    \/ \E f \in ExternalFiles : ExternalWrite(f)

Spec == Init /\ [][Next]_vars

\* The loop is sequential code: a started process reaches the loop, a loop at
\* its top issues the request, and time.sleep(1) returns.
SpecFair ==
    /\ Init
    /\ [][Next]_vars
    /\ WF_vars(\E readOk \in BOOLEAN : Start(readOk))
    /\ WF_vars(Request)
    /\ WF_vars(Sleep)

\* The same program where file I/O never fails and no other process touches
\* the status file; the supervisor may still kill and restart the process.
NextCrash ==
    \/ Start(TRUE)
    \/ Request
    \/ \E exc \in Exceptions : RequestFails(exc)
    \/ \E status \in Statuses : ServiceUnavailable(status)
    \/ Sleep
    \/ \E status \in Statuses : HttpError(status)
    \/ \E status \in Statuses : MissingEtag(status)
    \/ \E status \in Statuses, text \in Bodies, etag \in Etags :
          Accept(status, text, etag, TRUE)
    \/ PersistOpen(TRUE)
    \/ PersistWrite(TRUE)
    \/ \E outcome \in CommandOutcomes : RunDrain(outcome)
    \/ \E outcome \in CommandOutcomes : RunRecluster(outcome)
    \/ Kill

SpecCrash == Init /\ [][NextCrash]_vars

\* ------------------------------------------------------------ properties
\* the loop has finished handling an accepted response and is about to poll
Handled == pc = "poll" /\ lastOutcome = "accepted"

\* the outcomes after which the loop sleeps and polls again
Transient == (Exceptions \ {"TooManyRedirects"}) \cup {"503"}

\* C1: once an accepted response has been handled, the callback was invoked
\* for it if and only if its normalized event differs from the event observed
\* before it (stated for runs in which nobody else touched the status file and
\* no read of it failed).
C1_CallbackIffChanged ==
    (Handled /\ ~tampered) => ((invoked >= 1) <=> (observed # prevObserved))

\* C2: once the second of two consecutive accepted responses with different
\* normalized events has been handled, the callback was invoked exactly once
\* for it, with its event as argument, and the event in memory and (with
\* persistence) in the status file is that event.
C2_ExactlyOneTransition ==
    (Handled /\ ~tampered /\ nAccepted >= 2 /\ observed # prevObserved) =>
        /\ invoked = 1
        /\ cbArg = observed
        /\ last_maintenance_event = observed
        /\ is_persistent_last_event => file = FileWith(observed)

\* C3 (no action is missed, as a finite-run property): with persistence, once
\* an accepted response has been handled, the drain/undrain command run last
\* matches the live event of that response (a non-empty one): drain for an
\* event other than NONE, undrain (or none yet on a fresh host) for NONE.
C3_NoMissedAction ==
    (is_persistent_last_event /\ Handled /\ observed # <<>>) =>
        (drained <=> (observed # NONE))

\* C4 as stated: with persistence, when the process started with the persisted
\* event e and the first accepted response carries e, the callback is not
\* invoked.
C4_RestartNeverRetriggers ==
    [][(/\ is_persistent_last_event
        /\ pc = "waiting" /\ lastOutcome' = "accepted"
        /\ nAccepted = 0
        /\ observed # NONE
        /\ observed' = observed)
       => (pc' = "poll" /\ invoked' = 0)]_vars

\* C4 as amended: with persistence, when the status file holds the event e
\* since start-up (no other process changed it, no read of it failed) and the
\* first accepted response carries e, the callback is not invoked and no
\* command runs.
C4_RestartNoRetriggerIfFileIntact ==
    [][(/\ is_persistent_last_event
        /\ pc = "waiting" /\ lastOutcome' = "accepted"
        /\ nAccepted = 0
        /\ ~tampered'
        /\ file.exists
        /\ file.data = observed')
       => (pc' = "poll" /\ invoked' = 0 /\ ran' = <<>>)]_vars

C4_Witness ==
    /\ is_persistent_last_event
    /\ Handled
    /\ nAccepted = 1
    /\ ~tampered
    /\ file = FileWith(MIGRATE)
    /\ prevObserved = MIGRATE
    /\ observed = MIGRATE
    /\ invoked = 0

\* C5: without persistence, a run starts from NONE whatever the status file
\* holds, and the first accepted response invokes the callback if and only if
\* its event is not NONE.
C5_NonPersistentStartsFromNone ==
    ~is_persistent_last_event =>
        /\ (pc # "start" /\ nAccepted = 0) => last_maintenance_event = NONE
        /\ (/\ nAccepted = 1
            /\ lastOutcome = "accepted"
            /\ pc \in {"poll", "drain", "recluster", "terminated"})
           => ((invoked = 1) <=> (observed # NONE))

C5_Witness ==
    /\ ~is_persistent_last_event
    /\ file = FileWith(MIGRATE)
    /\ Handled
    /\ nAccepted = 1
    /\ observed = MIGRATE
    /\ invoked = 1

\* C6: a request that follows a transport error or a 503 carries the same
\* last_etag as the request that failed.
C6_RetryKeepsEtag ==
    (pc = "waiting" /\ lastOutcome \in Transient) => sent = prevSent

C6_Witness ==
    /\ pc = "waiting"
    /\ lastOutcome \in Transient
    /\ sent = "e1"
    /\ prevSent = "e1"

\* C7: last_etag is the etag of the latest accepted response of this run,
\* "0" before the first one, whether or not that response was a transition,
\* and every request carries it.
C7_EtagFollowsResponse ==
    /\ pc # "start" => last_etag = accepted
    /\ pc = "waiting" => sent = accepted

C7_Witness ==
    /\ pc = "waiting"
    /\ nAccepted = 2
    /\ observed = prevObserved
    /\ sent = "e2"
    /\ prevSent = "e1"

\* C8: a response whose status is neither 503 nor 2xx ends the loop with an
\* error: it is not handled as an event and no further request follows.
C8_NonSuccessStatusIsFatal ==
    (status_code # 0 /\ status_code # 503
       /\ ~(200 <= status_code /\ status_code < 300))
    => pc = "terminated"

\* C9: after a TooManyRedirects failure the loop is terminated with that
\* error: it neither sleeps nor polls again.
C9_TooManyRedirectsIsFatal ==
    lastOutcome = "TooManyRedirects" =>
        (pc = "terminated" /\ raised = "TooManyRedirects")

C9_Witness ==
    /\ pc = "terminated"
    /\ raised = "TooManyRedirects"
    /\ nAccepted >= 1

\* C10: the loop is terminated only by TooManyRedirects or by an HTTP error
\* status.
C10_OnlyProtocolFatalTerminates ==
    pc = "terminated" => raised \in {"TooManyRedirects", "HTTPError"}

\* C11: whatever the number of transient failures in a row, the loop is still
\* running after a transport error or a 503, and the sleep that follows is
\* followed by another request (unless the process is killed first); a
\* success response to that request is handled in the step that receives it.
C11_RetriesWithoutCap ==
    /\ [](lastOutcome \in Transient =>
            (pc \in {"sleep", "poll", "waiting"} /\ raised = "none"))
    /\ (pc = "sleep") ~> (pc = "waiting" \/ pc = "start")

C11_Witness ==
    /\ pc = "waiting"
    /\ lastOutcome \in Transient
    /\ retries = MaxRetries

\* C12: a callback invocation that has ended ran exactly two commands: first
\* the drain command if its event is not NONE and the undrain command if it
\* is, then the recluster command, each with the configured options appended.
C12_DrainThenRecluster ==
    (pc \in {"poll", "terminated"} /\ invoked = 1) =>
        /\ Len(ran) = 2
        /\ ran[1] = DrainCommand(cbArg, options)
        /\ (ran[1][3] = "quiesce:") <=> (cbArg # NONE)
        /\ ran[2] = ReclusterCommand(options)

\* C13: a drain or undrain command, whatever its outcome, is followed by the
\* recluster command, and the recluster command, whatever its outcome, by the
\* next poll (unless the process is killed first).
C13_FailedActionAbortsNothing ==
    [][/\ pc = "drain" => pc' \in {"drain", "recluster", "start"}
       /\ pc = "recluster" => pc' \in {"recluster", "poll", "start"}]_vars

\* C14: a status file that is missing or cannot be read counts as NONE, at
\* start-up and when a response is compared; and a transition whose write of
\* the status file fails (at open or at write) still has its event in memory
\* and its callback invoked with that event, and the loop is not ended.
C14_PersistenceErrorsAbsorbed ==
    [][/\ (pc = "start" /\ pc' = "poll" /\ read' \in {"absent", "failed"})
          => last_maintenance_event' = NONE
       /\ (pc = "waiting" /\ lastOutcome' = "accepted"
              /\ read' \in {"absent", "failed"})
          => /\ (pc' = "poll") <=> (maintenance_event' = NONE)
             /\ raised' = "none"
       /\ (pc \in {"persist_open", "persist_write"} /\ pc' # pc
              /\ pc' # "start")
          => \/ pc = "persist_open" /\ pc' = "persist_write"
             \/ /\ pc' = "drain"
                /\ raised' = "none"
                /\ last_maintenance_event' = maintenance_event
                /\ invoked' = 1
                /\ cbArg' = maintenance_event]_vars

C14_Witness ==
    /\ is_persistent_last_event
    /\ pc = "recluster"
    /\ read = "absent"
    /\ ~tampered
    /\ file = NoFile
    /\ ~wrote
    /\ invoked = 1
    /\ cbArg = MIGRATE
    /\ last_maintenance_event = MIGRATE

\* C15: within a run of the process a request is issued only from the top of
\* the loop, never while a command of the callback is running, and when the
\* callback was invoked for the latest response both of its commands have
\* run by then: the drain or undrain command for its event, then recluster.
C15_CallbackSynchronous ==
    [][/\ (pc' = "waiting" /\ pc # "waiting")
          => /\ pc = "poll"
             /\ invoked = 1
                => /\ Len(ran) = 2
                   /\ ran[1] = DrainCommand(cbArg, options)
                   /\ ran[2] = ReclusterCommand(options)
                   /\ drained <=> (cbArg # NONE)
       /\ pc \in {"persist_open", "persist_write", "drain", "recluster"}
          => pc' # "waiting"]_vars

C15_Witness ==
    /\ pc = "waiting"
    /\ lastOutcome = "accepted"
    /\ nAccepted = 2
    /\ ~tampered
    /\ prevObserved = MIGRATE
    /\ observed = NONE
    /\ ~drained

\* C16: normalising an event that is already normalised changes nothing; the
\* body NONE normalises to the value an absent status file is read as; and so,
\* with persistence and no status file, a response whose event is NONE is not
\* a transition.
C16_NormalizeIdempotent ==
    /\ [](maintenance_event # Unset =>
            normalize(maintenance_event) = maintenance_event)
    /\ [](normalize(NONE) = get_last_maintenance_event(NoFile, TRUE))
    /\ [][(/\ is_persistent_last_event
            /\ pc = "waiting" /\ lastOutcome' = "accepted"
            /\ read' = "absent"
            /\ maintenance_event' = NONE)
           => (pc' = "poll" /\ invoked' = 0)]_vars

C16_Witness ==
    /\ is_persistent_last_event
    /\ Handled
    /\ file = NoFile
    /\ read = "absent"
    /\ nAccepted = 2
    /\ prevObserved = NONE
    /\ maintenance_event = NONE
    /\ invoked = 0

\* C17: with persistence, an accepted response is a transition if and only if
\* its event differs from what the status file holds when the response is
\* handled (NONE when there is no file), whatever the loop held in memory.
C17_ComparesWithFile ==
    [][(/\ is_persistent_last_event
        /\ pc = "waiting" /\ pc' # "waiting" /\ lastOutcome' = "accepted")
       => /\ read' \in {"absent", "ok", "failed"}
          /\ read' = "ok" =>
                ((pc' = "poll") <=> (maintenance_event' = file.data))
          /\ read' = "absent" =>
                ((pc' = "poll") <=> (maintenance_event' = NONE))]_vars

\* the same event twice in a row, and the second is a transition because the
\* status file was changed by another process in between
C17_Witness ==
    /\ is_persistent_last_event
    /\ pc = "persist_open"
    /\ nAccepted = 2
    /\ tampered
    /\ read = "ok"
    /\ file = FileWith(MIGRATE \o <<"\n">>)
    /\ prevObserved = MIGRATE
    /\ observed = MIGRATE

\* C18: with persistence, while the drain, undrain or recluster command of a
\* transition is running, the status file holds the event the callback was
\* invoked with, provided the write succeeded and no other process wrote the
\* file since.
C18_PersistedBeforeCallback ==
    (/\ is_persistent_last_event
     /\ pc \in {"drain", "recluster"}
     /\ wrote)
    => (invoked = 1 /\ file = FileWith(cbArg))

C18_Witness ==
    /\ is_persistent_last_event
    /\ pc = "recluster"
    /\ wrote
    /\ invoked = 1
    /\ cbArg = MIGRATE
    /\ file = FileWith(MIGRATE)
    /\ Len(ran) = 1

\* C19: a poll that ends in a transport error, a 503 or a fatal error, and
\* the sleep that follows a retried one, change neither the event in memory
\* nor the status file; the file is not read, the callback is not invoked, no
\* command runs, and the event of the latest accepted response stays as it is.
C19_FailedPollChangesNothing ==
    [][(\/ pc = "waiting" /\ pc' \in {"sleep", "terminated"}
        \/ pc = "sleep" /\ pc' = "poll")
       => /\ UNCHANGED <<last_maintenance_event, maintenance_event, file,
                         observed, drained>>
          /\ read' = "none"
          /\ invoked' = 0
          /\ ran' = <<>>]_vars

C19_Witness ==
    /\ is_persistent_last_event
    /\ pc = "terminated"
    /\ raised = "HTTPError"
    /\ retries = 1
    /\ file = FileWith(MIGRATE)
    /\ last_maintenance_event = MIGRATE
    /\ read = "none"
    /\ invoked = 0

\* C20: without persistence the loop never opens the status file, for reading
\* or for writing, and no step of the process changes the file.
C20_NoFileAccessWithoutPersistence ==
    /\ [](~is_persistent_last_event =>
            /\ read = "none"
            /\ ~wrote
            /\ pc \notin {"persist_open", "persist_write"})
    /\ [][(~is_persistent_last_event /\ pc' # pc) => file' = file]_vars

C20_Witness ==
    /\ ~is_persistent_last_event
    /\ Handled
    /\ nAccepted = 2
    /\ prevObserved = MIGRATE
    /\ observed = NONE
    /\ invoked = 1
    /\ Len(ran) = 2
    /\ file = FileWith(MIGRATE)
====
